---- MODULE Spec2Model ----
(***************************************************************************)
(* Model of the two command-line programs of speech-generator:             *)
(*   program A  src/src/tts.js        chunked synthesis, streamed to disk   *)
(*   program B  src/unnamed/part_000  single-shot synthesis, saveWav        *)
(*                                                                         *)
(* Strings are modelled as views [from, len] into the input file, bytes as *)
(* integers 0..255, buffers as sequences of bytes.  One action is one      *)
(* synchronous run of JavaScript between two suspension points; the        *)
(* write stream's file operations run on the thread pool and are separate  *)
(* actions.                                                                *)
(***************************************************************************)
EXTENDS Integers, Sequences, FiniteSets, TLC

VARIABLES
    prog,            \* which program runs: "A" or "B"
    apiKey,          \* process.env.OPENAI_API_KEY / GEMINI_API_KEY is set
    argsGiven,       \* both inFile and outFile were given on the command line
    inFile,          \* the input file: [exists, lead, body, trail]
    file0,           \* what the output path named before the run
    outFile,         \* what the output path names now: [exists, content]
    mkdirCalled,     \* fs.mkdirSync(path.dirname(...)) has run
    pc,              \* the position of the program
    exitCode,        \* the process exit code, -1 while running
    text,            \* the trimmed input text
    chunks,          \* tts.js: const chunks
    i,               \* tts.js: the loop index
    fdState,         \* tts.js: out's descriptor: "none", "pending", "open", "closed"
    fdLinked,        \* the open descriptor's file is the one at the output path
    buffered,        \* bytes given to out.write and not yet in the file
    ended,           \* out.end() was called
    written,         \* every byte given to out.write, in order
    responses,       \* the response bodies received, in order
    requests,        \* the synthesis requests issued, in order
    inFlight,        \* chunk indices whose request is awaiting its response
    successReported, \* the success line was logged
    failed,          \* the catch handler was entered
    pcm,             \* part_000: const pcm
    saveWavCalls     \* part_000: number of saveWav invocations

inputs  == <<prog, apiKey, argsGiven, inFile, file0>>
stream  == <<fdState, fdLinked, buffered, ended>>
fsVars  == <<outFile, mkdirCalled>>
loopVars == <<text, chunks, i>>
netVars == <<responses, requests, inFlight>>
bVars   == <<pcm, saveWavCalls>>
vars == <<prog, apiKey, argsGiven, inFile, file0, outFile, mkdirCalled, pc,
          exitCode, text, chunks, i, fdState, fdLinked, buffered, ended,
          written, responses, requests, inFlight, successReported, failed,
          pcm, saveWavCalls>>

(***************************************************************************)
(* Program constants                                                       *)
(***************************************************************************)
HEADER_BYTES == 44

CHUNK_LEN == 8000

DefaultSampleRate == 24000

bytesPerSample == 2

\* links of response?.candidates?.[0]?.content?.parts?.[0]?.inlineData?.data
ChainLength == 7

(***************************************************************************)
(* Bounds of the model                                                     *)
(***************************************************************************)
MaxChunks == 3

PcmGroups == 100

(***************************************************************************)
(* Strings and buffers                                                     *)
(***************************************************************************)
Min(a, b) == IF a < b THEN a ELSE b

\* A mutant of Trim: the text is used as read, blanks included.
Trim_None(f) == [from |-> 0, len |-> f.lead + f.body + f.trail]

\* String.prototype.trim on a file of `lead` whitespace characters, `body`
\* characters that begin and end with a non-blank one, `trail` whitespace.
Trim(f) == [from |-> f.lead, len |-> f.body]

\* if (!text): the empty string is falsy
IsEmpty(s) == s.len = 0

\* String.prototype.slice(a, b) for 0 <= a <= b
StrSlice(s, a, b) ==
    LET lo == Min(a, s.len)
        hi == Min(b, s.len)
    IN  [from |-> s.from + lo, len |-> hi - lo]

\* Buffer.prototype.slice(n): the bytes from offset n on
BufSlice(buf, n) == SubSeq(buf, Min(n, Len(buf)) + 1, Len(buf))

UInt16LE(v) == << v % 256, (v \div 256) % 256 >>

UInt32LE(v) ==
    << v % 256, (v \div 256) % 256, (v \div 65536) % 256,
       (v \div 16777216) % 256 >>

ReadUInt16LE(buf, off) == buf[off + 1] + 256 * buf[off + 2]

ReadUInt32LE(buf, off) ==
    buf[off + 1] + 256 * buf[off + 2] + 65536 * buf[off + 3]
        + 16777216 * buf[off + 4]

AsciiRIFF == <<82, 73, 70, 70>>
AsciiWAVE == <<87, 65, 86, 69>>
AsciiFmt  == <<102, 109, 116, 32>>
AsciiData == <<100, 97, 116, 97>>

(***************************************************************************)
(* part_000: saveWav                                                       *)
(***************************************************************************)
\* A mutant of WavHeader: the total-size field counts the header twice.
WavHeader_TotalSize44(dataSize, sampleRate) ==
    AsciiRIFF \o UInt32LE(HEADER_BYTES + dataSize) \o AsciiWAVE \o AsciiFmt
        \o UInt32LE(16) \o UInt16LE(1) \o UInt16LE(1)
        \o UInt32LE(sampleRate) \o UInt32LE(sampleRate * bytesPerSample)
        \o UInt16LE(bytesPerSample) \o UInt16LE(8 * bytesPerSample)
        \o AsciiData \o UInt32LE(dataSize)

\* the 44 bytes saveWav puts in `header`
WavHeader(dataSize, sampleRate) ==
    LET byteRate == sampleRate * bytesPerSample
    IN  AsciiRIFF \o UInt32LE(36 + dataSize) \o AsciiWAVE \o AsciiFmt
            \o UInt32LE(16) \o UInt16LE(1) \o UInt16LE(1)
            \o UInt32LE(sampleRate) \o UInt32LE(byteRate)
            \o UInt16LE(bytesPerSample) \o UInt16LE(8 * bytesPerSample)
            \o AsciiData \o UInt32LE(dataSize)

\* Buffer.concat([header, pcm]) as saveWav writes it
SaveWavBytes(buf, sampleRate) == WavHeader(Len(buf), sampleRate) \o buf

(***************************************************************************)
(* part_000: the response and its base64 payload                           *)
(***************************************************************************)
B64Chars ==
    << "A","B","C","D","E","F","G","H","I","J","K","L","M","N","O","P",
       "Q","R","S","T","U","V","W","X","Y","Z","a","b","c","d","e","f",
       "g","h","i","j","k","l","m","n","o","p","q","r","s","t","u","v",
       "w","x","y","z","0","1","2","3","4","5","6","7","8","9","+","/" >>

B64Value(c) == (CHOOSE k \in 1..64 : B64Chars[k] = c) - 1

\* Buffer.from(str, "base64") on a padded base64 string (a sequence of
\* characters): every 4 characters give 3 bytes, "=" padding gives none.
B64Decode(str) ==
    LET m == Cardinality({k \in 1..Len(str) : str[k] # "="})
        n == (m * 6) \div 8
        c(g, k) == B64Value(str[4 * g + k + 1])
        byte(j) ==
            LET g == j \div 3
                r == j % 3
            IN  IF r = 0 THEN c(g, 0) * 4 + c(g, 1) \div 16
                ELSE IF r = 1 THEN (c(g, 1) % 16) * 16 + c(g, 2) \div 4
                ELSE (c(g, 2) % 4) * 64 + c(g, 3)
    IN  [j \in 1..n |-> byte(j - 1)]

Undefined == [defined |-> FALSE, value |-> <<>>]

\* response?.candidates?.[0]?.content?.parts?.[0]?.inlineData?.data
\* resp.links is the number of links of the chain that are present.
AudioData(resp) ==
    IF resp.links < ChainLength THEN Undefined
    ELSE [defined |-> TRUE, value |-> resp.data]

\* A mutant of NoAudio: only a missing payload is caught, not an empty one.
NoAudio_UndefinedOnly(base64) == ~base64.defined

\* if (!base64): undefined and the empty string are falsy
NoAudio(base64) == ~base64.defined \/ base64.value = <<>>

Repeat(group, k) ==
    [j \in 1..(k * Len(group)) |-> group[((j - 1) % Len(group)) + 1]]

\* the base64 payloads the provider may return
BPayloads ==
    { <<>>, <<"A", "Q", "=", "=">>, <<"/", "/", "8", "=">>,
      <<"A", "Q", "I", "D">>, Repeat(<<"A", "Q", "I", "D">>, PcmGroups) }

\* the replies generateContent may resolve with
BResponses ==
    { [links |-> k, data |-> <<>>] : k \in 0..(ChainLength - 1) }
        \cup { [links |-> ChainLength, data |-> d] : d \in BPayloads }

(***************************************************************************)
(* tts.js: the chunker and the assembler                                   *)
(***************************************************************************)
RECURSIVE ChunksFrom_ShortSlice(_, _)
ChunksFrom_ShortSlice(s, k) ==
    IF k < s.len
    THEN <<StrSlice(s, k, k + CHUNK_LEN - 1)>>
             \o ChunksFrom_ShortSlice(s, k + CHUNK_LEN)
    ELSE <<>>

\* A mutant of Chunker: each slice ends one character early.
Chunker_ShortSlice(s) == ChunksFrom_ShortSlice(s, 0)

RECURSIVE ChunksFrom(_, _)
ChunksFrom(s, k) ==
    IF k < s.len
    THEN <<StrSlice(s, k, k + CHUNK_LEN)>> \o ChunksFrom(s, k + CHUNK_LEN)
    ELSE <<>>

\* for (let i = 0; i < text.length; i += CHUNK_LEN) chunks.push(text.slice(...))
Chunker(s) == ChunksFrom(s, 0)

\* A mutant of ChunkBytes: the header of later responses is kept.
ChunkBytes_NoStrip(k, buffer) == buffer

\* what iteration k hands to out.write
ChunkBytes(k, buffer) ==
    IF k = 0 THEN buffer ELSE BufSlice(buffer, HEADER_BYTES)

\* the bodies speech.create may answer with: a 44-byte header, then samples
AResponses ==
    { WavHeader(1, 24000) \o <<7>>,
      WavHeader(1, 24000) \o <<8, 9>>,
      WavHeader(2, 22050) \o <<5, 6>> }

(***************************************************************************)
(* Initial states                                                          *)
(***************************************************************************)
TextLens == { k * CHUNK_LEN + d : k \in 0..(MaxChunks - 1), d \in {1, CHUNK_LEN} }

InputFiles ==
    { [exists |-> FALSE, lead |-> 0, body |-> 0, trail |-> 0],
      [exists |-> TRUE, lead |-> 0, body |-> 0, trail |-> 0],
      [exists |-> TRUE, lead |-> 2, body |-> 0, trail |-> 0] }
        \cup { [exists |-> TRUE, lead |-> l, body |-> b, trail |-> 1] :
                   l \in {0, 2}, b \in TextLens }

NoFile == [exists |-> FALSE, content |-> <<>>]

OutputFiles == { NoFile, [exists |-> TRUE, content |-> <<0>>] }

Init ==
    /\ prog \in {"A", "B"}
    /\ apiKey \in BOOLEAN
    /\ argsGiven \in BOOLEAN
    /\ inFile \in InputFiles
    /\ file0 \in OutputFiles
    /\ outFile = file0
    /\ mkdirCalled = FALSE
    /\ pc = "start"
    /\ exitCode = -1
    /\ text = [from |-> 0, len |-> 0]
    /\ chunks = <<>>
    /\ i = 0
    /\ fdState = "none"
    /\ fdLinked = FALSE
    /\ buffered = <<>>
    /\ ended = FALSE
    /\ written = <<>>
    /\ responses = <<>>
    /\ requests = <<>>
    /\ inFlight = {}
    /\ successReported = FALSE
    /\ failed = FALSE
    /\ pcm = <<>>
    /\ saveWavCalls = 0

\* process.exit(code)
Exit(code) == pc' = "exited" /\ exitCode' = code

(***************************************************************************)
(* Program A, tts.js: main() up to its first await                         *)
(***************************************************************************)
Request(k) == [index |-> k, input |-> chunks'[k + 1]]

A_MissingCredential ==
    /\ prog = "A" /\ pc = "start"
    /\ ~apiKey
    /\ Exit(1)
    /\ UNCHANGED <<inputs, fsVars, loopVars, stream, written, netVars,
                   successReported, failed, bVars>>

A_MissingArgs ==
    /\ prog = "A" /\ pc = "start"
    /\ apiKey /\ ~argsGiven
    /\ Exit(1)
    /\ UNCHANGED <<inputs, fsVars, loopVars, stream, written, netVars,
                   successReported, failed, bVars>>

A_InputNotFound ==
    /\ prog = "A" /\ pc = "start"
    /\ apiKey /\ argsGiven /\ ~inFile.exists
    /\ Exit(1)
    /\ UNCHANGED <<inputs, fsVars, loopVars, stream, written, netVars,
                   successReported, failed, bVars>>

A_EmptyInput ==
    /\ prog = "A" /\ pc = "start"
    /\ apiKey /\ argsGiven /\ inFile.exists
    /\ IsEmpty(Trim(inFile))
    /\ Exit(1)
    /\ UNCHANGED <<inputs, fsVars, loopVars, stream, written, netVars,
                   successReported, failed, bVars>>

\* A mutant of A_Begin: every chunk's request is issued before any is awaited.
A_Begin_AllAtOnce ==
    /\ prog = "A" /\ pc = "start"
    /\ apiKey /\ argsGiven /\ inFile.exists
    /\ ~IsEmpty(Trim(inFile))
    /\ text' = Trim(inFile)
    /\ chunks' = Chunker(text')
    /\ i' = 0
    /\ mkdirCalled' = TRUE
    /\ fdState' = "pending"
    /\ requests' = [k \in 1..Len(chunks') |-> Request(k - 1)]
    /\ inFlight' = 0..(Len(chunks') - 1)
    /\ pc' = "awaitCreate"
    /\ UNCHANGED <<inputs, outFile, exitCode, fdLinked, buffered, ended,
                   written, responses, successReported, failed, bVars>>

\* lines 57-85: chunk the text, make the directory, create the write stream
\* (its open is queued), enter the loop and issue the request of chunk 0.
A_Begin ==
    /\ prog = "A" /\ pc = "start"
    /\ apiKey /\ argsGiven /\ inFile.exists
    /\ ~IsEmpty(Trim(inFile))
    /\ text' = Trim(inFile)
    /\ chunks' = Chunker(text')
    /\ i' = 0
    /\ mkdirCalled' = TRUE
    /\ fdState' = "pending"
    /\ IF Len(chunks') > 0
       THEN /\ requests' = <<Request(0)>>
            /\ inFlight' = {0}
            /\ pc' = "awaitCreate"
            /\ UNCHANGED <<ended, successReported>>
       ELSE /\ UNCHANGED <<requests, inFlight>>
            /\ ended' = TRUE
            /\ successReported' = TRUE
            /\ pc' = "draining"
    /\ UNCHANGED <<inputs, outFile, exitCode, fdLinked, buffered,
                   written, responses, failed, bVars>>

(***************************************************************************)
(* Program A: the continuations of the two awaits of the loop body         *)
(***************************************************************************)
\* client.audio.speech.create(params) resolves: the body is awaited next
A_CreateResolved ==
    /\ prog = "A" /\ pc = "awaitCreate"
    /\ pc' = "awaitBody"
    /\ UNCHANGED <<inputs, fsVars, exitCode, loopVars, stream, written,
                   netVars, successReported, failed, bVars>>

\* A mutant of A_CreateRejected: the failed chunk is requested again.
A_CreateRejected_Retry ==
    /\ prog = "A" /\ pc = "awaitCreate"
    /\ Len(requests) < 2 * MaxChunks
    /\ requests' = Append(requests, [index |-> i, input |-> chunks[i + 1]])
    /\ failed' = TRUE
    /\ UNCHANGED <<inputs, fsVars, pc, exitCode, loopVars, stream, written,
                   responses, inFlight, successReported, bVars>>

\* create() rejects: control enters the catch block (line 95)
A_CreateRejected ==
    /\ prog = "A" /\ pc = "awaitCreate"
    /\ inFlight' = inFlight \ {i}
    /\ failed' = TRUE
    /\ pc' = "catch"
    /\ UNCHANGED <<inputs, fsVars, exitCode, loopVars, stream, written,
                   responses, requests, successReported, bVars>>

\* response.arrayBuffer() rejects: control enters the catch block
A_BodyRejected ==
    /\ prog = "A" /\ pc = "awaitBody"
    /\ inFlight' = inFlight \ {i}
    /\ failed' = TRUE
    /\ pc' = "catch"
    /\ UNCHANGED <<inputs, fsVars, exitCode, loopVars, stream, written,
                   responses, requests, successReported, bVars>>

\* lines 87-94, then either the next iteration up to its await (line 85)
\* or the finally block and the success lines (100-108)
A_BodyResolved ==
    /\ prog = "A" /\ pc = "awaitBody"
    /\ \E buffer \in AResponses :
          /\ responses' = Append(responses, buffer)
          /\ written' = written \o ChunkBytes(i, buffer)
          /\ buffered' = buffered \o ChunkBytes(i, buffer)
    /\ i' = i + 1
    /\ IF i' < Len(chunks)
       THEN /\ requests' = Append(requests, [index |-> i', input |-> chunks[i' + 1]])
            /\ inFlight' = (inFlight \ {i}) \cup {i'}
            /\ pc' = "awaitCreate"
            /\ UNCHANGED <<ended, successReported>>
       ELSE /\ inFlight' = inFlight \ {i}
            /\ ended' = TRUE
            /\ successReported' = TRUE
            /\ pc' = "draining"
            /\ UNCHANGED requests
    /\ UNCHANGED <<inputs, fsVars, exitCode, text, chunks, fdState, fdLinked,
                   failed, bVars>>

(***************************************************************************)
(* Program A: the catch block (lines 95-98).  It runs on the main thread   *)
(* while the stream's queued open runs on the thread pool, so the two file *)
(* system calls of line 97 and the exit of line 98 are separate steps.     *)
(***************************************************************************)
\* if (fs.existsSync(absOut)) fs.unlinkSync(absOut)
A_CatchCleanup ==
    /\ prog = "A" /\ pc = "catch"
    /\ IF outFile.exists
       THEN outFile' = NoFile /\ fdLinked' = FALSE
       ELSE UNCHANGED <<outFile, fdLinked>>
    /\ pc' = "catchExit"
    /\ UNCHANGED <<inputs, mkdirCalled, exitCode, loopVars, fdState, buffered,
                   ended, written, netVars, successReported, failed, bVars>>

\* process.exit(1): the finally block does not run, buffered bytes are lost
A_CatchExit ==
    /\ prog = "A" /\ pc = "catchExit"
    /\ Exit(1)
    /\ UNCHANGED <<inputs, fsVars, loopVars, stream, written, netVars,
                   successReported, failed, bVars>>

(***************************************************************************)
(* Program A: the write stream `out` (line 67) on the thread pool          *)
(***************************************************************************)
\* the queued open(absOut, "w") runs: the file is created or truncated
A_StreamOpened ==
    /\ prog = "A" /\ pc # "exited"
    /\ fdState = "pending"
    /\ fdState' = "open"
    /\ fdLinked' = TRUE
    /\ outFile' = [exists |-> TRUE, content |-> <<>>]
    /\ UNCHANGED <<inputs, mkdirCalled, pc, exitCode, loopVars, buffered,
                   ended, written, netVars, successReported, failed, bVars>>

\* the buffered bytes are written through the descriptor
A_StreamFlush ==
    /\ prog = "A" /\ pc # "exited"
    /\ fdState = "open" /\ buffered # <<>>
    /\ buffered' = <<>>
    /\ IF fdLinked
       THEN outFile' = [outFile EXCEPT !.content = @ \o buffered]
       ELSE UNCHANGED outFile
    /\ UNCHANGED <<inputs, mkdirCalled, pc, exitCode, loopVars, fdState,
                   fdLinked, ended, written, netVars, successReported, failed,
                   bVars>>

\* after end() and the last write the descriptor is closed
A_StreamClosed ==
    /\ prog = "A" /\ pc # "exited"
    /\ fdState = "open" /\ buffered = <<>> /\ ended
    /\ fdState' = "closed"
    /\ UNCHANGED <<inputs, fsVars, pc, exitCode, loopVars, fdLinked, buffered,
                   ended, written, netVars, successReported, failed, bVars>>

\* main() has returned and nothing is pending: the process ends with code 0
A_ExitOk ==
    /\ prog = "A" /\ pc = "draining"
    /\ fdState = "closed"
    /\ Exit(0)
    /\ UNCHANGED <<inputs, fsVars, loopVars, stream, written, netVars,
                   successReported, failed, bVars>>

(***************************************************************************)
(* Program B, part_000: the module's top level (lines 23-56)               *)
(***************************************************************************)
B_MissingCredential ==
    /\ prog = "B" /\ pc = "start"
    /\ ~apiKey
    /\ Exit(1)
    /\ UNCHANGED <<inputs, fsVars, loopVars, stream, written, netVars,
                   successReported, failed, bVars>>

B_MissingArgs ==
    /\ prog = "B" /\ pc = "start"
    /\ apiKey /\ ~argsGiven
    /\ Exit(1)
    /\ UNCHANGED <<inputs, fsVars, loopVars, stream, written, netVars,
                   successReported, failed, bVars>>

B_InputNotFound ==
    /\ prog = "B" /\ pc = "start"
    /\ apiKey /\ argsGiven /\ ~inFile.exists
    /\ Exit(1)
    /\ UNCHANGED <<inputs, fsVars, loopVars, stream, written, netVars,
                   successReported, failed, bVars>>

B_EmptyInput ==
    /\ prog = "B" /\ pc = "start"
    /\ apiKey /\ argsGiven /\ inFile.exists
    /\ IsEmpty(Trim(inFile))
    /\ Exit(1)
    /\ UNCHANGED <<inputs, fsVars, loopVars, stream, written, netVars,
                   successReported, failed, bVars>>

\* lines 56 and 83-99: the style cue is prepended and the one request issued
B_Begin ==
    /\ prog = "B" /\ pc = "start"
    /\ apiKey /\ argsGiven /\ inFile.exists
    /\ ~IsEmpty(Trim(inFile))
    /\ text' = Trim(inFile)
    /\ requests' = <<[index |-> 0, input |-> [style |-> TRUE, rawText |-> text']]>>
    /\ inFlight' = {0}
    /\ pc' = "awaitGenerate"
    /\ UNCHANGED <<inputs, fsVars, exitCode, chunks, i, stream, written,
                   responses, successReported, failed, bVars>>

\* generateContent rejects: the .catch handler (lines 112-115) exits
B_GenerateRejected ==
    /\ prog = "B" /\ pc = "awaitGenerate"
    /\ inFlight' = {}
    /\ failed' = TRUE
    /\ Exit(1)
    /\ UNCHANGED <<inputs, fsVars, loopVars, stream, written, responses,
                   requests, successReported, bVars>>

\* lines 101-111: no payload exits with 1; otherwise decode, saveWav, report
B_GenerateResolved ==
    /\ prog = "B" /\ pc = "awaitGenerate"
    /\ inFlight' = {}
    /\ \E response \in BResponses :
          LET base64 == AudioData(response)
              decoded == B64Decode(base64.value)
          IN  /\ responses' = <<response>>
              /\ IF NoAudio(base64)
                 THEN /\ Exit(1)
                      /\ UNCHANGED <<fsVars, successReported, bVars>>
                 ELSE /\ pcm' = decoded
                      /\ saveWavCalls' = saveWavCalls + 1
                      /\ mkdirCalled' = TRUE
                      /\ outFile' = [exists |-> TRUE,
                                     content |-> SaveWavBytes(decoded, DefaultSampleRate)]
                      /\ successReported' = TRUE
                      /\ pc' = "draining"
                      /\ UNCHANGED exitCode
    /\ UNCHANGED <<inputs, loopVars, stream, written, requests, failed>>

\* the async function has returned and nothing is pending: exit code 0
B_ExitOk ==
    /\ prog = "B" /\ pc = "draining"
    /\ Exit(0)
    /\ UNCHANGED <<inputs, fsVars, loopVars, stream, written, netVars,
                   successReported, failed, bVars>>

(***************************************************************************)
(* The specification                                                       *)
(***************************************************************************)
Next ==
    \/ A_MissingCredential
    \/ A_MissingArgs
    \/ A_InputNotFound
    \/ A_EmptyInput
    \/ A_Begin
    \/ A_CreateResolved
    \/ A_CreateRejected
    \/ A_BodyRejected
    \/ A_BodyResolved
    \/ A_CatchCleanup
    \/ A_CatchExit
    \/ A_StreamOpened
    \/ A_StreamFlush
    \/ A_StreamClosed
    \/ A_ExitOk
    \/ B_MissingCredential
    \/ B_MissingArgs
    \/ B_InputNotFound
    \/ B_EmptyInput
    \/ B_Begin
    \/ B_GenerateRejected
    \/ B_GenerateResolved
    \/ B_ExitOk

Spec == Init /\ [][Next]_vars

(***************************************************************************)
(* What the claims are stated with                                         *)
(***************************************************************************)
RECURSIVE StripAll(_)
\* the responses' bytes after their first 44, joined in order
StripAll(rs) ==
    IF rs = <<>> THEN <<>>
    ELSE SubSeq(Head(rs), 45, Len(Head(rs))) \o StripAll(Tail(rs))

\* R1 in full, then Ri[44:] for every later response
ExpectedOutput(rs) ==
    IF rs = <<>> THEN <<>> ELSE Head(rs) \o StripAll(Tail(rs))

RECURSIVE PayloadTotal(_)
\* the sum of |Ri| - 44
PayloadTotal(rs) ==
    IF rs = <<>> THEN 0 ELSE (Len(Head(rs)) - 44) + PayloadTotal(Tail(rs))

HeaderOf(r) == SubSeq(r, 1, 44)

SameHeaders(rs) == \A k \in 1..Len(rs) : HeaderOf(rs[k]) = HeaderOf(rs[1])

\* each response's own header declares its own payload length
WellFormed(rs) == \A k \in 1..Len(rs) : ReadUInt32LE(rs[k], 40) = Len(rs[k]) - 44

RanOk == pc = "exited" /\ exitCode = 0

(* C1: in a successful run of program A over responses R1..RN, the bytes    *)
(* handed to the output are R1 in full followed by Ri[44:] for i = 2..N in  *)
(* order, of length |R1| + sum (|Ri| - 44), and that is the file's content  *)
(* when the process has ended.                                              *)
C1_OutputIsFirstPlusStrippedRest ==
    (prog = "A" /\ successReported) =>
        /\ Len(responses) = Len(chunks)
        /\ Len(responses) >= 1
        /\ written = ExpectedOutput(responses)
        /\ Len(written) = Len(responses[1]) + PayloadTotal(Tail(responses))
        /\ HeaderOf(written) = HeaderOf(responses[1])
        /\ (RanOk => outFile.exists /\ outFile.content = written)

C1_Witness ==
    /\ prog = "A" /\ RanOk
    /\ Len(responses) = 2
    /\ HeaderOf(responses[1]) # HeaderOf(responses[2])
    /\ Len(outFile.content) = 44 + 1 + 2

(* C2: for N responses with identical 44-byte headers, the data-size field  *)
(* of the header of the assembled file equals the sum of the payload        *)
(* lengths.  Stated for responses that are each well formed.                *)
C2_DataSizeFieldIsPayloadTotal ==
    (prog = "A" /\ RanOk /\ SameHeaders(responses) /\ WellFormed(responses)) =>
        ReadUInt32LE(outFile.content, 40) = PayloadTotal(responses)

(* C3: when a synthesis request or a response read fails after the write    *)
(* stream was created, the output path names no file when the process       *)
(* exits with code 1.                                                       *)
C3_NoOutputFileAfterFailedRun ==
    (prog = "A" /\ failed /\ pc = "exited") => ~outFile.exists

(* C4: success is reported only when every written byte is in the file and  *)
(* the descriptor is closed.                                                *)
C4_SuccessOnlyAfterFlushAndClose ==
    (prog = "A" /\ successReported) => (buffered = <<>> /\ fdState = "closed")

(* C5: for a non-empty trimmed text of length L the chunker yields          *)
(* ceil(L/8000) chunks, none empty, each of at most 8000 characters, all    *)
(* but the last of exactly 8000, contiguous from the start of the text to   *)
(* its end (so their concatenation is the text), one chunk equal to the     *)
(* text when L <= 8000.                                                     *)
C5_ChunkerPartitionsText ==
    (prog = "A" /\ mkdirCalled) =>
        LET L == text.len
            N == Len(chunks)
        IN  /\ L > 0
            /\ N = (L + 7999) \div 8000
            /\ \A k \in 1..N :
                  /\ chunks[k].len > 0
                  /\ chunks[k].len <= 8000
                  /\ (k < N => chunks[k].len = 8000)
            /\ chunks[1].from = text.from
            /\ \A k \in 1..(N - 1) :
                  chunks[k + 1].from = chunks[k].from + chunks[k].len
            /\ chunks[N].from + chunks[N].len = text.from + L
            /\ (L <= 8000 => chunks = <<text>>)

C5_Witness ==
    /\ prog = "A" /\ mkdirCalled
    /\ Len(chunks) = 3
    /\ chunks[3].len = 1
    /\ text.from = 2

(* C6: program A issues its requests in chunk order, one at a time: at most *)
(* one request is in flight, the k-th request is for chunk k, and while the *)
(* request of chunk i is in flight the responses of all chunks before i     *)
(* have been received and their bytes handed to the output.                 *)
C6_RequestsSequentialInOrder ==
    prog = "A" =>
        /\ Cardinality(inFlight) <= 1
        /\ \A k \in 1..Len(requests) :
              requests[k].index = k - 1 /\ requests[k].input = chunks[k]
        /\ \A k \in inFlight :
              /\ k = Len(requests) - 1
              /\ Len(responses) = k
              /\ written = ExpectedOutput(responses)

C6_Witness ==
    /\ prog = "A"
    /\ inFlight = {2}
    /\ Len(responses) = 2
    /\ Len(written) > 44

(* C7: in both programs a run that fails validation (no credential, an      *)
(* argument absent, input file not found, input empty after trimming)       *)
(* issues no synthesis request, leaves the output path as it was, and       *)
(* exits with code 1.                                                       *)
ValidationFails ==
    ~apiKey \/ ~argsGiven \/ ~inFile.exists \/ inFile.body = 0

C7_ValidationFailureTouchesNothing ==
    ValidationFails =>
        /\ requests = <<>>
        /\ inFlight = {}
        /\ outFile = file0
        /\ ~mkdirCalled
        /\ fdState = "none"
        /\ saveWavCalls = 0
        /\ ~successReported
        /\ pc \in {"start", "exited"}
        /\ (pc = "exited" => exitCode = 1)

C7_Witness ==
    /\ pc = "exited" /\ exitCode = 1
    /\ apiKey /\ argsGiven /\ inFile.exists
    /\ inFile.lead > 0 /\ inFile.body = 0
    /\ file0.exists /\ outFile = file0

(* C8: program A has no retry and no skip: the k-th request is for chunk k, *)
(* there are never more requests than chunks, and once a request has failed *)
(* no request is issued, no byte is handed to the output, success is never  *)
(* reported and the process can only go on to exit with code 1.             *)
C8_NoRetryNoSkip ==
    /\ [](prog = "A" =>
            /\ Len(requests) <= Len(chunks)
            /\ \A k \in 1..Len(requests) : requests[k].index = k - 1
            /\ (failed => /\ ~successReported
                          /\ pc \in {"catch", "catchExit", "exited"}
                          /\ inFlight = {})
            /\ (failed /\ pc = "exited" => exitCode = 1))
    /\ [][(prog = "A" /\ failed) =>
            /\ failed'
            /\ requests' = requests
            /\ written' = written
            /\ responses' = responses
            /\ ~successReported'
            /\ pc' \in {"catch", "catchExit", "exited"}]_vars

C8_Witness ==
    /\ prog = "A" /\ failed /\ pc = "exited" /\ exitCode = 1
    /\ Len(chunks) = 3
    /\ Len(requests) = 2
    /\ Len(responses) = 1

(* C9: when the reply of program B carries no audio payload (a link of the  *)
(* chain is missing or the data is empty) the run exits with code 1,        *)
(* saveWav is not invoked, neither the output file nor its directory is     *)
(* created, and exactly one request was issued.                             *)
C9_NoAudioExitsWithoutOutput ==
    (/\ prog = "B"
     /\ responses # <<>>
     /\ (responses[1].links < 7 \/ responses[1].data = <<>>)) =>
        /\ pc = "exited" /\ exitCode = 1
        /\ saveWavCalls = 0
        /\ outFile = file0
        /\ ~mkdirCalled
        /\ ~successReported
        /\ Len(requests) = 1

C9_Witness ==
    /\ prog = "B"
    /\ responses # <<>>
    /\ responses[1].links = 7 /\ responses[1].data = <<>>
    /\ pc = "exited" /\ exitCode = 1
    /\ ~file0.exists

(* C10: saveWav writes a 44-byte header followed by the n payload bytes;    *)
(* the data-size field is n, the total-size field 36 + n, one channel,      *)
(* sample rate 24000, 16 bits per sample, block align 2, byte rate 48000.   *)
C10_SaveWavHeaderMatchesPayload ==
    (prog = "B" /\ saveWavCalls > 0) =>
        LET f == outFile.content
            n == Len(pcm)
        IN  /\ saveWavCalls = 1
            /\ outFile.exists
            /\ Len(f) = 44 + n
            /\ SubSeq(f, 45, Len(f)) = pcm
            /\ SubSeq(f, 1, 4) = <<82, 73, 70, 70>>
            /\ ReadUInt32LE(f, 4) = 36 + n
            /\ ReadUInt16LE(f, 22) = 1
            /\ ReadUInt32LE(f, 24) = 24000
            /\ ReadUInt32LE(f, 28) = 48000
            /\ ReadUInt16LE(f, 32) = 2
            /\ ReadUInt16LE(f, 34) = 16
            /\ ReadUInt32LE(f, 40) = n

C10_Witness ==
    /\ prog = "B" /\ saveWavCalls = 1
    /\ Len(pcm) >= 256
    /\ pc = "exited" /\ exitCode = 0

====
